---- MODULE Spec2Model ----
(***************************************************************************)
(* The dressing-room management system: the quantity ledgers (the central  *)
(* stock Estoque, a dressing room Camarim, an order Pedido, a shopping list *)
(* ListaCompras) and the five managers that create, find, update and remove *)
(* catalog items, performers, dressing rooms, orders and shopping lists.    *)
(* Every C++ method is a pure operator that maps the object's state and the *)
(* arguments to the state after the call and the outcome the caller sees    *)
(* (return value or exception class); an action applies the operator to     *)
(* arguments drawn from small input sets.                                   *)
(***************************************************************************)
EXTENDS Integers, FiniteSets, Sequences, TLC

\* Largest quantity a ledger record holds in the model; calls whose result
\* would exceed it are not taken (int arithmetic stays far from overflow).
MaxQty == 2

\* Arguments the callers pass.
ItemIdInputs == {-1, 1, 2}
NomeInputs == {"", "Toalha"}
QuantidadeInputs == -1 .. MaxQty
PrecoInputs == {-1, 0, 2, 3}
IdInputs == {-1, 2}
NomeArtistaInputs == {"", "Bia"}

\* Largest id a manager hands out in the model; no entity is created once
\* proximoId has passed it (int arithmetic stays far from overflow).
MaxId == 3

\* Arguments the callers pass to the catalog.
NomeItemInputs == {"", "Agua", "Toalha"}
IdEntidadeInputs == -1 .. MaxId
DescricaoInputs == {"", "Semana"}
NomeCamarimInputs == {"", "Camarim A"}
DetalheInputs == {"", "Quantidade insuficiente. Disponivel: 1, Solicitado: 2"}

VARIABLES
    estoqueItens,   \* Estoque::itens      map<int, ItemEstoque>
    camarimItens,   \* Camarim::itens      map<int, ItemCamarim>
    pedido,         \* a Pedido object: id, camarimId, nomeArtista, itens, atendido
    listaItens,     \* ListaCompras::itens map<int, ItemCompra>
    gerenciadorItens,         \* GerenciadorItens: itens, proximoId
    gerenciadorArtistas,      \* GerenciadorArtistas: artistas, proximoId
    gerenciadorCamarins,      \* GerenciadorCamarins: camarins, proximoId
    gerenciadorPedidos,       \* GerenciadorPedidos: pedidos, proximoId
    gerenciadorListaCompras,  \* GerenciadorListaCompras: listas, proximoId
    call,           \* the last call made: method and arguments
    result,         \* how that call ended: kind of return or exception class
    retorno         \* <<v>> when the call returned the value v, <<>> otherwise

gerenciadores ==
    <<gerenciadorItens, gerenciadorArtistas, gerenciadorCamarins, gerenciadorPedidos,
      gerenciadorListaCompras>>

vars ==
    <<estoqueItens, camarimItens, pedido, listaItens, gerenciadores, call, result,
      retorno>>

----------------------------------------------------------------------------
\* std::map and the record structs

EmptyMap == [k \in {} |-> 0]

\* itens[k] = v
MapPut(itens, k, v) == [x \in (DOMAIN itens) \cup {k} |-> IF x = k THEN v ELSE itens[x]]

\* itens.erase(k)
MapErase(itens, k) == [x \in (DOMAIN itens) \ {k} |-> itens[x]]

ItemEstoque(id, nome, qtd) == [itemId |-> id, nomeItem |-> nome, quantidade |-> qtd]

ItemCamarim(id, nome, qtd) == [itemId |-> id, nomeItem |-> nome, quantidade |-> qtd]

ItemPedido(id, nome, qtd) == [itemId |-> id, nomeItem |-> nome, quantidade |-> qtd]

ItemCompra(id, nome, qtd, preco) ==
    [itemId |-> id, nomeItem |-> nome, quantidade |-> qtd, preco |-> preco,
     subtotal |-> qtd * preco]

\* A call that leaves through `throw kind` or `return`: state after, outcome.
Outcome(state, res) == [state |-> state, result |-> res]

\* A call that leaves through `return valor` with a value that is not a bool.
Retorna(state, valor) == [state |-> state, result |-> "valor", valor |-> valor]

\* The value to record for an outcome: <<valor>> if it carries one.
ValorDe(out) == IF out.result = "valor" THEN <<out.valor>> ELSE <<>>

\* A pointer into a vector is the position of the element; nullptr is none.
nullptr == 0

NoCall ==
    [op |-> "none", itemId |-> 0, nomeItem |-> "", quantidade |-> 0, preco |-> 0,
     id |-> 0, nome |-> "", atendido |-> FALSE, camarimId |-> 0, artistaId |-> 0,
     nomeArtista |-> "", descricao |-> ""]

DentroDoLimite(itens) == \A k \in DOMAIN itens : itens[k].quantidade <= MaxQty

----------------------------------------------------------------------------
\* Estoque (estoque.cpp)

Estoque_adicionarItem(itens, itemId, nomeItem, quantidade) ==
    IF itemId < 0 THEN Outcome(itens, "ValidacaoException")
    ELSE IF nomeItem = "" THEN Outcome(itens, "ValidacaoException")
    ELSE IF quantidade < 0 THEN Outcome(itens, "ValidacaoException")
    ELSE IF itemId \in DOMAIN itens
         THEN Outcome([itens EXCEPT ![itemId].quantidade = @ + quantidade], "void")
         ELSE Outcome(MapPut(itens, itemId, ItemEstoque(itemId, nomeItem, quantidade)), "void")

\* Variant: the record stays in the map when its quantity reaches zero.
Estoque_removerItem_SemErase(itens, itemId, quantidade) ==
    IF itemId \notin DOMAIN itens THEN Outcome(itens, "EstoqueException")
    ELSE IF quantidade < 0 THEN Outcome(itens, "ValidacaoException")
    ELSE IF itens[itemId].quantidade < quantidade
         THEN Outcome(itens, "EstoqueInsuficienteException")
    ELSE Outcome([itens EXCEPT ![itemId].quantidade = @ - quantidade], "true")

\* Variant: the quantity is validated before the item is looked up.
Estoque_removerItem_ValidaAntes(itens, itemId, quantidade) ==
    IF quantidade < 0 THEN Outcome(itens, "ValidacaoException")
    ELSE IF itemId \notin DOMAIN itens THEN Outcome(itens, "EstoqueException")
    ELSE IF itens[itemId].quantidade < quantidade
         THEN Outcome(itens, "EstoqueInsuficienteException")
    ELSE LET sub == [itens EXCEPT ![itemId].quantidade = @ - quantidade] IN
         IF sub[itemId].quantidade = 0
         THEN Outcome(MapErase(sub, itemId), "true")
         ELSE Outcome(sub, "true")

\* Variant: a quantity of zero is rejected too, as in Camarim::removerItem.
Estoque_removerItem_RejeitaZero(itens, itemId, quantidade) ==
    IF itemId \notin DOMAIN itens THEN Outcome(itens, "EstoqueException")
    ELSE IF quantidade <= 0 THEN Outcome(itens, "ValidacaoException")
    ELSE IF itens[itemId].quantidade < quantidade
         THEN Outcome(itens, "EstoqueInsuficienteException")
    ELSE LET sub == [itens EXCEPT ![itemId].quantidade = @ - quantidade] IN
         IF sub[itemId].quantidade = 0
         THEN Outcome(MapErase(sub, itemId), "true")
         ELSE Outcome(sub, "true")

Estoque_removerItem(itens, itemId, quantidade) ==
    IF itemId \notin DOMAIN itens THEN Outcome(itens, "EstoqueException")
    ELSE IF quantidade < 0 THEN Outcome(itens, "ValidacaoException")
    ELSE IF itens[itemId].quantidade < quantidade
         THEN Outcome(itens, "EstoqueInsuficienteException")
    ELSE LET sub == [itens EXCEPT ![itemId].quantidade = @ - quantidade] IN
         IF sub[itemId].quantidade = 0
         THEN Outcome(MapErase(sub, itemId), "true")
         ELSE Outcome(sub, "true")

\* Variant: an id without a record counts as a record with quantity zero.
Estoque_verificarDisponibilidade_AusenteZero(itens, itemId, quantidade) ==
    IF itemId \notin DOMAIN itens
    THEN (IF 0 >= quantidade THEN Outcome(itens, "true") ELSE Outcome(itens, "false"))
    ELSE IF itens[itemId].quantidade >= quantidade THEN Outcome(itens, "true")
    ELSE Outcome(itens, "false")

Estoque_verificarDisponibilidade(itens, itemId, quantidade) ==
    IF itemId \notin DOMAIN itens THEN Outcome(itens, "false")
    ELSE IF itens[itemId].quantidade >= quantidade THEN Outcome(itens, "true")
    ELSE Outcome(itens, "false")

\* Variant: the new quantity is validated before the item is looked up.
Estoque_atualizarQuantidade_ValidaAntes(itens, itemId, novaQuantidade) ==
    IF novaQuantidade < 0 THEN Outcome(itens, "ValidacaoException")
    ELSE IF itemId \notin DOMAIN itens THEN Outcome(itens, "EstoqueException")
    ELSE LET upd == [itens EXCEPT ![itemId].quantidade = novaQuantidade] IN
         IF novaQuantidade = 0
         THEN Outcome(MapErase(upd, itemId), "void")
         ELSE Outcome(upd, "void")

Estoque_atualizarQuantidade(itens, itemId, novaQuantidade) ==
    IF itemId \notin DOMAIN itens THEN Outcome(itens, "EstoqueException")
    ELSE IF novaQuantidade < 0 THEN Outcome(itens, "ValidacaoException")
    ELSE LET upd == [itens EXCEPT ![itemId].quantidade = novaQuantidade] IN
         IF novaQuantidade = 0
         THEN Outcome(MapErase(upd, itemId), "void")
         ELSE Outcome(upd, "void")

DoEstoque_adicionarItem ==
    \E i \in ItemIdInputs, n \in NomeInputs, q \in QuantidadeInputs :
        LET out == Estoque_adicionarItem(estoqueItens, i, n, q) IN
        /\ DentroDoLimite(out.state)
        /\ estoqueItens' = out.state
        /\ call' = [NoCall EXCEPT !.op = "Estoque::adicionarItem", !.itemId = i,
                                  !.nomeItem = n, !.quantidade = q]
        /\ result' = out.result
        /\ retorno' = <<>>
        /\ UNCHANGED <<camarimItens, pedido, listaItens, gerenciadores>>

DoEstoque_removerItem ==
    \E i \in ItemIdInputs, q \in QuantidadeInputs :
        LET out == Estoque_removerItem(estoqueItens, i, q) IN
        /\ estoqueItens' = out.state
        /\ call' = [NoCall EXCEPT !.op = "Estoque::removerItem", !.itemId = i,
                                  !.quantidade = q]
        /\ result' = out.result
        /\ retorno' = <<>>
        /\ UNCHANGED <<camarimItens, pedido, listaItens, gerenciadores>>

DoEstoque_atualizarQuantidade ==
    \E i \in ItemIdInputs, q \in QuantidadeInputs :
        LET out == Estoque_atualizarQuantidade(estoqueItens, i, q) IN
        /\ estoqueItens' = out.state
        /\ call' = [NoCall EXCEPT !.op = "Estoque::atualizarQuantidade", !.itemId = i,
                                  !.quantidade = q]
        /\ result' = out.result
        /\ retorno' = <<>>
        /\ UNCHANGED <<camarimItens, pedido, listaItens, gerenciadores>>

DoEstoque_verificarDisponibilidade ==
    \E i \in ItemIdInputs, q \in QuantidadeInputs :
        LET out == Estoque_verificarDisponibilidade(estoqueItens, i, q) IN
        /\ estoqueItens' = out.state
        /\ call' = [NoCall EXCEPT !.op = "Estoque::verificarDisponibilidade",
                                  !.itemId = i, !.quantidade = q]
        /\ result' = out.result
        /\ retorno' = <<>>
        /\ UNCHANGED <<camarimItens, pedido, listaItens, gerenciadores>>

----------------------------------------------------------------------------
\* Camarim (camarim.cpp)

\* Variant: an existing record's quantity is overwritten instead of added to.
Camarim_inserirItem_Sobrescreve(itens, itemId, nomeItem, quantidade) ==
    IF itemId < 0 THEN Outcome(itens, "ValidacaoException")
    ELSE IF nomeItem = "" THEN Outcome(itens, "ValidacaoException")
    ELSE IF quantidade <= 0 THEN Outcome(itens, "ValidacaoException")
    ELSE Outcome(MapPut(itens, itemId, ItemCamarim(itemId, nomeItem, quantidade)), "void")

Camarim_inserirItem(itens, itemId, nomeItem, quantidade) ==
    IF itemId < 0 THEN Outcome(itens, "ValidacaoException")
    ELSE IF nomeItem = "" THEN Outcome(itens, "ValidacaoException")
    ELSE IF quantidade <= 0 THEN Outcome(itens, "ValidacaoException")
    ELSE IF itemId \in DOMAIN itens
         THEN Outcome([itens EXCEPT ![itemId].quantidade = @ + quantidade], "void")
         ELSE Outcome(MapPut(itens, itemId, ItemCamarim(itemId, nomeItem, quantidade)), "void")

\* Variant: an insufficient quantity returns false, as the header comment says.
Camarim_removerItem_RetornaFalse(itens, itemId, quantidade) ==
    IF itemId \notin DOMAIN itens THEN Outcome(itens, "CamarimException")
    ELSE IF quantidade <= 0 THEN Outcome(itens, "ValidacaoException")
    ELSE IF itens[itemId].quantidade < quantidade
         THEN Outcome(itens, "false")
    ELSE LET sub == [itens EXCEPT ![itemId].quantidade = @ - quantidade] IN
         IF sub[itemId].quantidade = 0
         THEN Outcome(MapErase(sub, itemId), "true")
         ELSE Outcome(sub, "true")

\* Variant: only negative quantities are rejected, as in Estoque::removerItem.
Camarim_removerItem_AceitaZero(itens, itemId, quantidade) ==
    IF itemId \notin DOMAIN itens THEN Outcome(itens, "CamarimException")
    ELSE IF quantidade < 0 THEN Outcome(itens, "ValidacaoException")
    ELSE IF itens[itemId].quantidade < quantidade
         THEN Outcome(itens, "CamarimException")
    ELSE LET sub == [itens EXCEPT ![itemId].quantidade = @ - quantidade] IN
         IF sub[itemId].quantidade = 0
         THEN Outcome(MapErase(sub, itemId), "true")
         ELSE Outcome(sub, "true")

\* Variant: a record whose quantity reaches zero stays in the map.
Camarim_removerItem_SemErase(itens, itemId, quantidade) ==
    IF itemId \notin DOMAIN itens THEN Outcome(itens, "CamarimException")
    ELSE IF quantidade <= 0 THEN Outcome(itens, "ValidacaoException")
    ELSE IF itens[itemId].quantidade < quantidade
         THEN Outcome(itens, "CamarimException")
    ELSE Outcome([itens EXCEPT ![itemId].quantidade = @ - quantidade], "true")

Camarim_removerItem(itens, itemId, quantidade) ==
    IF itemId \notin DOMAIN itens THEN Outcome(itens, "CamarimException")
    ELSE IF quantidade <= 0 THEN Outcome(itens, "ValidacaoException")
    ELSE IF itens[itemId].quantidade < quantidade
         THEN Outcome(itens, "CamarimException")
    ELSE LET sub == [itens EXCEPT ![itemId].quantidade = @ - quantidade] IN
         IF sub[itemId].quantidade = 0
         THEN Outcome(MapErase(sub, itemId), "true")
         ELSE Outcome(sub, "true")

DoCamarim_inserirItem ==
    \E i \in ItemIdInputs, n \in NomeInputs, q \in QuantidadeInputs :
        LET out == Camarim_inserirItem(camarimItens, i, n, q) IN
        /\ DentroDoLimite(out.state)
        /\ camarimItens' = out.state
        /\ call' = [NoCall EXCEPT !.op = "Camarim::inserirItem", !.itemId = i,
                                  !.nomeItem = n, !.quantidade = q]
        /\ result' = out.result
        /\ retorno' = <<>>
        /\ UNCHANGED <<estoqueItens, pedido, listaItens, gerenciadores>>

DoCamarim_removerItem ==
    \E i \in ItemIdInputs, q \in QuantidadeInputs :
        LET out == Camarim_removerItem(camarimItens, i, q) IN
        /\ camarimItens' = out.state
        /\ call' = [NoCall EXCEPT !.op = "Camarim::removerItem", !.itemId = i,
                                  !.quantidade = q]
        /\ result' = out.result
        /\ retorno' = <<>>
        /\ UNCHANGED <<estoqueItens, pedido, listaItens, gerenciadores>>

----------------------------------------------------------------------------
\* Pedido (pedido.cpp)

Pedido_setId(p, id) ==
    IF id < 0 THEN Outcome(p, "ValidacaoException")
    ELSE Outcome([p EXCEPT !.id = id], "void")

Pedido_setCamarimId(p, camarimId) ==
    IF camarimId < 0 THEN Outcome(p, "ValidacaoException")
    ELSE Outcome([p EXCEPT !.camarimId = camarimId], "void")

Pedido_setNomeArtista(p, nomeArtista) ==
    IF nomeArtista = "" THEN Outcome(p, "ValidacaoException")
    ELSE Outcome([p EXCEPT !.nomeArtista = nomeArtista], "void")

Pedido_setAtendido(p, atendido) == Outcome([p EXCEPT !.atendido = atendido], "void")

\* Variant: the arguments are validated before the fulfilled flag is tested.
Pedido_adicionarItem_ValidaAntes(p, itemId, nomeItem, quantidade) ==
    IF itemId < 0 THEN Outcome(p, "ValidacaoException")
    ELSE IF nomeItem = "" THEN Outcome(p, "ValidacaoException")
    ELSE IF quantidade <= 0 THEN Outcome(p, "ValidacaoException")
    ELSE IF p.atendido THEN Outcome(p, "PedidoException")
    ELSE IF itemId \in DOMAIN p.itens
         THEN Outcome([p EXCEPT !.itens[itemId].quantidade = @ + quantidade], "void")
         ELSE Outcome([p EXCEPT !.itens =
                          MapPut(@, itemId, ItemPedido(itemId, nomeItem, quantidade))], "void")

Pedido_adicionarItem(p, itemId, nomeItem, quantidade) ==
    IF p.atendido THEN Outcome(p, "PedidoException")
    ELSE IF itemId < 0 THEN Outcome(p, "ValidacaoException")
    ELSE IF nomeItem = "" THEN Outcome(p, "ValidacaoException")
    ELSE IF quantidade <= 0 THEN Outcome(p, "ValidacaoException")
    ELSE IF itemId \in DOMAIN p.itens
         THEN Outcome([p EXCEPT !.itens[itemId].quantidade = @ + quantidade], "void")
         ELSE Outcome([p EXCEPT !.itens =
                          MapPut(@, itemId, ItemPedido(itemId, nomeItem, quantidade))], "void")

\* Variant: the fulfilled flag is not tested.
Pedido_removerItem_SemTeste(p, itemId) ==
    IF itemId \notin DOMAIN p.itens THEN Outcome(p, "false")
    ELSE Outcome([p EXCEPT !.itens = MapErase(@, itemId)], "true")

Pedido_removerItem(p, itemId) ==
    IF p.atendido THEN Outcome(p, "PedidoException")
    ELSE IF itemId \notin DOMAIN p.itens THEN Outcome(p, "false")
    ELSE Outcome([p EXCEPT !.itens = MapErase(@, itemId)], "true")

\* Variant: the call flips the fulfilled flag instead of setting it.
Pedido_marcarAtendido_Alterna(p) == Outcome([p EXCEPT !.atendido = ~@], "void")

Pedido_marcarAtendido(p) == Outcome([p EXCEPT !.atendido = TRUE], "void")

DoPedido_setId ==
    \E v \in IdInputs :
        LET out == Pedido_setId(pedido, v) IN
        /\ pedido' = out.state
        /\ call' = [NoCall EXCEPT !.op = "Pedido::setId", !.id = v]
        /\ result' = out.result
        /\ retorno' = <<>>
        /\ UNCHANGED <<estoqueItens, camarimItens, listaItens, gerenciadores>>

DoPedido_setCamarimId ==
    \E v \in IdInputs :
        LET out == Pedido_setCamarimId(pedido, v) IN
        /\ pedido' = out.state
        /\ call' = [NoCall EXCEPT !.op = "Pedido::setCamarimId", !.id = v]
        /\ result' = out.result
        /\ retorno' = <<>>
        /\ UNCHANGED <<estoqueItens, camarimItens, listaItens, gerenciadores>>

DoPedido_setNomeArtista ==
    \E n \in NomeArtistaInputs :
        LET out == Pedido_setNomeArtista(pedido, n) IN
        /\ pedido' = out.state
        /\ call' = [NoCall EXCEPT !.op = "Pedido::setNomeArtista", !.nome = n]
        /\ result' = out.result
        /\ retorno' = <<>>
        /\ UNCHANGED <<estoqueItens, camarimItens, listaItens, gerenciadores>>

DoPedido_setAtendido ==
    \E b \in BOOLEAN :
        LET out == Pedido_setAtendido(pedido, b) IN
        /\ pedido' = out.state
        /\ call' = [NoCall EXCEPT !.op = "Pedido::setAtendido", !.atendido = b]
        /\ result' = out.result
        /\ retorno' = <<>>
        /\ UNCHANGED <<estoqueItens, camarimItens, listaItens, gerenciadores>>

DoPedido_adicionarItem ==
    \E i \in ItemIdInputs, n \in NomeInputs, q \in QuantidadeInputs :
        LET out == Pedido_adicionarItem(pedido, i, n, q) IN
        /\ DentroDoLimite(out.state.itens)
        /\ pedido' = out.state
        /\ call' = [NoCall EXCEPT !.op = "Pedido::adicionarItem", !.itemId = i,
                                  !.nomeItem = n, !.quantidade = q]
        /\ result' = out.result
        /\ retorno' = <<>>
        /\ UNCHANGED <<estoqueItens, camarimItens, listaItens, gerenciadores>>

DoPedido_removerItem ==
    \E i \in ItemIdInputs :
        LET out == Pedido_removerItem(pedido, i) IN
        /\ pedido' = out.state
        /\ call' = [NoCall EXCEPT !.op = "Pedido::removerItem", !.itemId = i]
        /\ result' = out.result
        /\ retorno' = <<>>
        /\ UNCHANGED <<estoqueItens, camarimItens, listaItens, gerenciadores>>

DoPedido_marcarAtendido ==
    LET out == Pedido_marcarAtendido(pedido) IN
    /\ pedido' = out.state
    /\ call' = [NoCall EXCEPT !.op = "Pedido::marcarAtendido"]
    /\ result' = out.result
    /\ retorno' = <<>>
    /\ UNCHANGED <<estoqueItens, camarimItens, listaItens, gerenciadores>>

----------------------------------------------------------------------------
\* ListaCompras (listacompras.cpp); prices are whole currency units

\* Variant: the subtotal of an existing record uses the price of this call.
ListaCompras_adicionarItem_PrecoNovo(itens, itemId, nomeItem, quantidade, preco) ==
    IF itemId < 0 THEN Outcome(itens, "ValidacaoException")
    ELSE IF nomeItem = "" THEN Outcome(itens, "ValidacaoException")
    ELSE IF quantidade <= 0 THEN Outcome(itens, "ValidacaoException")
    ELSE IF preco < 0 THEN Outcome(itens, "ValidacaoException")
    ELSE IF itemId \in DOMAIN itens
         THEN LET add == [itens EXCEPT ![itemId].quantidade = @ + quantidade] IN
              Outcome([add EXCEPT ![itemId].subtotal = add[itemId].quantidade * preco],
                      "void")
         ELSE Outcome(MapPut(itens, itemId,
                             ItemCompra(itemId, nomeItem, quantidade, preco)), "void")

ListaCompras_adicionarItem(itens, itemId, nomeItem, quantidade, preco) ==
    IF itemId < 0 THEN Outcome(itens, "ValidacaoException")
    ELSE IF nomeItem = "" THEN Outcome(itens, "ValidacaoException")
    ELSE IF quantidade <= 0 THEN Outcome(itens, "ValidacaoException")
    ELSE IF preco < 0 THEN Outcome(itens, "ValidacaoException")
    ELSE IF itemId \in DOMAIN itens
         THEN LET add == [itens EXCEPT ![itemId].quantidade = @ + quantidade] IN
              Outcome([add EXCEPT ![itemId].subtotal =
                          add[itemId].quantidade * add[itemId].preco], "void")
         ELSE Outcome(MapPut(itens, itemId,
                             ItemCompra(itemId, nomeItem, quantidade, preco)), "void")

ListaCompras_removerItem(itens, itemId) ==
    IF itemId \notin DOMAIN itens THEN Outcome(itens, "false")
    ELSE Outcome(MapErase(itens, itemId), "true")

\* Variant: zero is accepted and removes the record, as in the stock.
ListaCompras_atualizarQuantidade_AceitaZero(itens, itemId, quantidade) ==
    IF itemId \notin DOMAIN itens THEN Outcome(itens, "ListaComprasException")
    ELSE IF quantidade < 0 THEN Outcome(itens, "ValidacaoException")
    ELSE IF quantidade = 0 THEN Outcome(MapErase(itens, itemId), "void")
    ELSE LET upd == [itens EXCEPT ![itemId].quantidade = quantidade] IN
         Outcome([upd EXCEPT ![itemId].subtotal = quantidade * upd[itemId].preco], "void")

\* Variant: the quantity is overwritten and the subtotal is left as it was.
ListaCompras_atualizarQuantidade_SemSubtotal(itens, itemId, quantidade) ==
    IF itemId \notin DOMAIN itens THEN Outcome(itens, "ListaComprasException")
    ELSE IF quantidade <= 0 THEN Outcome(itens, "ValidacaoException")
    ELSE Outcome([itens EXCEPT ![itemId].quantidade = quantidade], "void")

ListaCompras_atualizarQuantidade(itens, itemId, quantidade) ==
    IF itemId \notin DOMAIN itens THEN Outcome(itens, "ListaComprasException")
    ELSE IF quantidade <= 0 THEN Outcome(itens, "ValidacaoException")
    ELSE LET upd == [itens EXCEPT ![itemId].quantidade = quantidade] IN
         Outcome([upd EXCEPT ![itemId].subtotal = quantidade * upd[itemId].preco], "void")

ListaCompras_limpar(itens) == Outcome(EmptyMap, "void")

\* The loop of calcularTotal: the map is walked in key order, adding subtotals.
RECURSIVE AcumulaSubtotais(_, _, _)
AcumulaSubtotais(itens, restantes, total) ==
    IF restantes = {} THEN total
    ELSE LET k == CHOOSE x \in restantes : \A y \in restantes : x <= y IN
         AcumulaSubtotais(itens, restantes \ {k}, total + itens[k].subtotal)

ListaCompras_calcularTotal(itens) == AcumulaSubtotais(itens, DOMAIN itens, 0)

DoListaCompras_adicionarItem ==
    \E i \in ItemIdInputs, n \in NomeInputs, q \in QuantidadeInputs, pr \in PrecoInputs :
        LET out == ListaCompras_adicionarItem(listaItens, i, n, q, pr) IN
        /\ DentroDoLimite(out.state)
        /\ listaItens' = out.state
        /\ call' = [NoCall EXCEPT !.op = "ListaCompras::adicionarItem", !.itemId = i,
                                  !.nomeItem = n, !.quantidade = q, !.preco = pr]
        /\ result' = out.result
        /\ retorno' = <<>>
        /\ UNCHANGED <<estoqueItens, camarimItens, pedido, gerenciadores>>

DoListaCompras_removerItem ==
    \E i \in ItemIdInputs :
        LET out == ListaCompras_removerItem(listaItens, i) IN
        /\ listaItens' = out.state
        /\ call' = [NoCall EXCEPT !.op = "ListaCompras::removerItem", !.itemId = i]
        /\ result' = out.result
        /\ retorno' = <<>>
        /\ UNCHANGED <<estoqueItens, camarimItens, pedido, gerenciadores>>

DoListaCompras_atualizarQuantidade ==
    \E i \in ItemIdInputs, q \in QuantidadeInputs :
        LET out == ListaCompras_atualizarQuantidade(listaItens, i, q) IN
        /\ listaItens' = out.state
        /\ call' = [NoCall EXCEPT !.op = "ListaCompras::atualizarQuantidade",
                                  !.itemId = i, !.quantidade = q]
        /\ result' = out.result
        /\ retorno' = <<>>
        /\ UNCHANGED <<estoqueItens, camarimItens, pedido, gerenciadores>>

DoListaCompras_limpar ==
    LET out == ListaCompras_limpar(listaItens) IN
    /\ listaItens' = out.state
    /\ call' = [NoCall EXCEPT !.op = "ListaCompras::limpar"]
    /\ result' = out.result
    /\ retorno' = <<>>
    /\ UNCHANGED <<estoqueItens, camarimItens, pedido, gerenciadores>>

DoListaCompras_calcularTotal ==
    /\ call' = [NoCall EXCEPT !.op = "ListaCompras::calcularTotal"]
    /\ result' = "valor"
    /\ retorno' = <<ListaCompras_calcularTotal(listaItens)>>
    /\ UNCHANGED <<estoqueItens, camarimItens, pedido, listaItens, gerenciadores>>

----------------------------------------------------------------------------
\* Item and GerenciadorItens (item.cpp); prices are whole currency units

Item(id, nome, preco) == [id |-> id, nome |-> nome, preco |-> preco]

Item_setNome(item, nome) ==
    IF nome = "" THEN Outcome(item, "ValidacaoException")
    ELSE Outcome([item EXCEPT !.nome = nome], "void")

Item_setPreco(item, preco) ==
    IF preco < 0 THEN Outcome(item, "ValidacaoException")
    ELSE Outcome([item EXCEPT !.preco = preco], "void")

\* The three throw statements of GerenciadorItens.
ItemJaExiste == "ItemException: Item ja existe com este nome"
ItemNaoEncontrado == "ItemException: Item com ID nao encontrado"
ItemNomeDeOutro == "ItemException: Ja existe outro item com este nome"

\* The position a search loop returns: the first of the matching positions,
\* or nullptr when there is none.
Primeiro(achados) ==
    IF achados = {} THEN nullptr
    ELSE CHOOSE i \in achados : \A j \in achados : i <= j

GerenciadorItens_buscarPorId(g, id) ==
    Primeiro({i \in 1 .. Len(g.itens) : g.itens[i].id = id})

\* Variant: the loop stops before the last element of the vector.
GerenciadorItens_buscarPorNome_SemUltimo(g, nome) ==
    Primeiro({i \in 1 .. Len(g.itens) - 1 : g.itens[i].nome = nome})

GerenciadorItens_buscarPorNome(g, nome) ==
    Primeiro({i \in 1 .. Len(g.itens) : g.itens[i].nome = nome})

\* Variant: a create refused for its name still uses up an id.
GerenciadorItens_cadastrar_ConsomeId(g, nome, preco) ==
    IF nome = "" THEN Outcome(g, "ValidacaoException")
    ELSE IF preco < 0 THEN Outcome(g, "ValidacaoException")
    ELSE IF GerenciadorItens_buscarPorNome(g, nome) # nullptr
         THEN Outcome([g EXCEPT !.proximoId = @ + 1], ItemJaExiste)
    ELSE Retorna([itens |-> Append(g.itens, Item(g.proximoId, nome, preco)),
                  proximoId |-> g.proximoId + 1],
                 g.proximoId)

GerenciadorItens_cadastrar(g, nome, preco) ==
    IF nome = "" THEN Outcome(g, "ValidacaoException")
    ELSE IF preco < 0 THEN Outcome(g, "ValidacaoException")
    ELSE IF GerenciadorItens_buscarPorNome(g, nome) # nullptr THEN Outcome(g, ItemJaExiste)
    ELSE Retorna([itens |-> Append(g.itens, Item(g.proximoId, nome, preco)),
                  proximoId |-> g.proximoId + 1],
                 g.proximoId)

\* remove_if followed by erase: the elements that stay keep their order.
GerenciadorItens_remover(g, id) ==
    LET Fica(item) == item.id # id
        ficam == SelectSeq(g.itens, Fica)
    IN IF Len(ficam) # Len(g.itens)
       THEN Outcome([g EXCEPT !.itens = ficam], "true")
       ELSE Outcome(g, "false")

\* listar() returns a copy of the vector.
GerenciadorItens_listar(g) == g.itens

\* Variant: the name is not compared with the names of the other items.
GerenciadorItens_atualizar_SemTesteNome(g, id, nome, preco) ==
    LET item == GerenciadorItens_buscarPorId(g, id) IN
    IF item = nullptr THEN Outcome(g, ItemNaoEncontrado)
    ELSE LET comNome == Item_setNome(g.itens[item], nome) IN
         IF comNome.result # "void" THEN Outcome(g, comNome.result)
         ELSE LET comPreco == Item_setPreco(comNome.state, preco) IN
              Outcome([g EXCEPT !.itens[item] = comPreco.state],
                      IF comPreco.result = "void" THEN "true" ELSE comPreco.result)

\* Variant: the name is rejected when any item has it, the updated one included.
GerenciadorItens_atualizar_RejeitaProprioNome(g, id, nome, preco) ==
    LET item == GerenciadorItens_buscarPorId(g, id) IN
    IF item = nullptr THEN Outcome(g, ItemNaoEncontrado)
    ELSE LET itemComNome == GerenciadorItens_buscarPorNome(g, nome) IN
         IF itemComNome # nullptr
         THEN Outcome(g, ItemNomeDeOutro)
         ELSE LET comNome == Item_setNome(g.itens[item], nome) IN
              IF comNome.result # "void" THEN Outcome(g, comNome.result)
              ELSE LET comPreco == Item_setPreco(comNome.state, preco) IN
                   Outcome([g EXCEPT !.itens[item] = comPreco.state],
                           IF comPreco.result = "void" THEN "true" ELSE comPreco.result)

GerenciadorItens_atualizar(g, id, nome, preco) ==
    LET item == GerenciadorItens_buscarPorId(g, id) IN
    IF item = nullptr THEN Outcome(g, ItemNaoEncontrado)
    ELSE LET itemComNome == GerenciadorItens_buscarPorNome(g, nome) IN
         IF itemComNome # nullptr /\ g.itens[itemComNome].id # id
         THEN Outcome(g, ItemNomeDeOutro)
         ELSE LET comNome == Item_setNome(g.itens[item], nome) IN
              IF comNome.result # "void" THEN Outcome(g, comNome.result)
              ELSE LET comPreco == Item_setPreco(comNome.state, preco) IN
                   Outcome([g EXCEPT !.itens[item] = comPreco.state],
                           IF comPreco.result = "void" THEN "true" ELSE comPreco.result)

DoGerenciadorItens_cadastrar ==
    \E n \in NomeItemInputs, pr \in PrecoInputs :
        LET out == GerenciadorItens_cadastrar(gerenciadorItens, n, pr) IN
        /\ gerenciadorItens.proximoId <= MaxId
        /\ gerenciadorItens' = out.state
        /\ call' = [NoCall EXCEPT !.op = "GerenciadorItens::cadastrar", !.nome = n,
                                  !.preco = pr]
        /\ result' = out.result
        /\ retorno' = ValorDe(out)
        /\ UNCHANGED <<estoqueItens, camarimItens, pedido, listaItens,
                       gerenciadorArtistas, gerenciadorCamarins, gerenciadorPedidos,
                       gerenciadorListaCompras>>

DoGerenciadorItens_buscarPorId ==
    \E i \in IdEntidadeInputs :
        LET item == GerenciadorItens_buscarPorId(gerenciadorItens, i) IN
        /\ call' = [NoCall EXCEPT !.op = "GerenciadorItens::buscarPorId", !.id = i]
        /\ result' = (IF item = nullptr THEN "nullptr" ELSE "valor")
        /\ retorno' = (IF item = nullptr THEN <<>> ELSE <<gerenciadorItens.itens[item]>>)
        /\ UNCHANGED <<estoqueItens, camarimItens, pedido, listaItens, gerenciadores>>

DoGerenciadorItens_buscarPorNome ==
    \E n \in NomeItemInputs :
        LET item == GerenciadorItens_buscarPorNome(gerenciadorItens, n) IN
        /\ call' = [NoCall EXCEPT !.op = "GerenciadorItens::buscarPorNome", !.nome = n]
        /\ result' = (IF item = nullptr THEN "nullptr" ELSE "valor")
        /\ retorno' = (IF item = nullptr THEN <<>> ELSE <<gerenciadorItens.itens[item]>>)
        /\ UNCHANGED <<estoqueItens, camarimItens, pedido, listaItens, gerenciadores>>

DoGerenciadorItens_remover ==
    \E i \in IdEntidadeInputs :
        LET out == GerenciadorItens_remover(gerenciadorItens, i) IN
        /\ gerenciadorItens' = out.state
        /\ call' = [NoCall EXCEPT !.op = "GerenciadorItens::remover", !.id = i]
        /\ result' = out.result
        /\ retorno' = <<>>
        /\ UNCHANGED <<estoqueItens, camarimItens, pedido, listaItens,
                       gerenciadorArtistas, gerenciadorCamarins, gerenciadorPedidos,
                       gerenciadorListaCompras>>

DoGerenciadorItens_atualizar ==
    \E i \in IdEntidadeInputs, n \in NomeItemInputs, pr \in PrecoInputs :
        LET out == GerenciadorItens_atualizar(gerenciadorItens, i, n, pr) IN
        /\ gerenciadorItens' = out.state
        /\ call' = [NoCall EXCEPT !.op = "GerenciadorItens::atualizar", !.id = i,
                                  !.nome = n, !.preco = pr]
        /\ result' = out.result
        /\ retorno' = <<>>
        /\ UNCHANGED <<estoqueItens, camarimItens, pedido, listaItens,
                       gerenciadorArtistas, gerenciadorCamarins, gerenciadorPedidos,
                       gerenciadorListaCompras>>

----------------------------------------------------------------------------
\* Pessoa, Artista and GerenciadorArtistas (pessoa.cpp, artista.cpp)

Artista(id, nome, camarimId) == [id |-> id, nome |-> nome, camarimId |-> camarimId]

Pessoa_setNome(pessoa, nome) == Outcome([pessoa EXCEPT !.nome = nome], "void")

Artista_setCamarimId(artista, camarimId) ==
    IF camarimId < 0 THEN Outcome(artista, "ValidacaoException")
    ELSE Outcome([artista EXCEPT !.camarimId = camarimId], "void")

GerenciadorArtistas_cadastrar(g, nome, camarimId) ==
    IF nome = "" THEN Outcome(g, "ValidacaoException")
    ELSE IF camarimId < 0 THEN Outcome(g, "ValidacaoException")
    ELSE Retorna([artistas |-> Append(g.artistas, Artista(g.proximoId, nome, camarimId)),
                  proximoId |-> g.proximoId + 1],
                 g.proximoId)

GerenciadorArtistas_buscarPorId(g, id) ==
    Primeiro({i \in 1 .. Len(g.artistas) : g.artistas[i].id = id})

\* Variant: everything from the first match to the end of the vector is erased.
GerenciadorArtistas_remover_AteOFim(g, id) ==
    LET artista == GerenciadorArtistas_buscarPorId(g, id) IN
    IF artista # nullptr
    THEN Outcome([g EXCEPT !.artistas = SubSeq(g.artistas, 1, artista - 1)], "true")
    ELSE Outcome(g, "false")

GerenciadorArtistas_remover(g, id) ==
    LET Fica(artista) == artista.id # id
        ficam == SelectSeq(g.artistas, Fica)
    IN IF Len(ficam) # Len(g.artistas)
       THEN Outcome([g EXCEPT !.artistas = ficam], "true")
       ELSE Outcome(g, "false")

\* listar() returns a copy of the vector.
GerenciadorArtistas_listar(g) == g.artistas

GerenciadorArtistas_atualizar(g, id, nome, camarimId) ==
    LET artista == GerenciadorArtistas_buscarPorId(g, id) IN
    IF artista = nullptr THEN Outcome(g, "ArtistaException")
    ELSE LET comNome == Pessoa_setNome(g.artistas[artista], nome)
             comCamarim == Artista_setCamarimId(comNome.state, camarimId)
         IN Outcome([g EXCEPT !.artistas[artista] = comCamarim.state],
                    IF comCamarim.result = "void" THEN "true" ELSE comCamarim.result)

DoGerenciadorArtistas_cadastrar ==
    \E n \in NomeArtistaInputs, c \in IdInputs :
        LET out == GerenciadorArtistas_cadastrar(gerenciadorArtistas, n, c) IN
        /\ gerenciadorArtistas.proximoId <= MaxId
        /\ gerenciadorArtistas' = out.state
        /\ call' = [NoCall EXCEPT !.op = "GerenciadorArtistas::cadastrar", !.nome = n,
                                  !.camarimId = c]
        /\ result' = out.result
        /\ retorno' = ValorDe(out)
        /\ UNCHANGED <<estoqueItens, camarimItens, pedido, listaItens,
                       gerenciadorItens, gerenciadorCamarins,
                       gerenciadorPedidos, gerenciadorListaCompras>>

DoGerenciadorArtistas_remover ==
    \E i \in IdEntidadeInputs :
        LET out == GerenciadorArtistas_remover(gerenciadorArtistas, i) IN
        /\ gerenciadorArtistas' = out.state
        /\ call' = [NoCall EXCEPT !.op = "GerenciadorArtistas::remover", !.id = i]
        /\ result' = out.result
        /\ retorno' = <<>>
        /\ UNCHANGED <<estoqueItens, camarimItens, pedido, listaItens,
                       gerenciadorItens, gerenciadorCamarins,
                       gerenciadorPedidos, gerenciadorListaCompras>>

DoGerenciadorArtistas_atualizar ==
    \E i \in IdEntidadeInputs, n \in NomeArtistaInputs, c \in IdInputs :
        LET out == GerenciadorArtistas_atualizar(gerenciadorArtistas, i, n, c) IN
        /\ gerenciadorArtistas' = out.state
        /\ call' = [NoCall EXCEPT !.op = "GerenciadorArtistas::atualizar", !.id = i,
                                  !.nome = n, !.camarimId = c]
        /\ result' = out.result
        /\ retorno' = <<>>
        /\ UNCHANGED <<estoqueItens, camarimItens, pedido, listaItens,
                       gerenciadorItens, gerenciadorCamarins,
                       gerenciadorPedidos, gerenciadorListaCompras>>

----------------------------------------------------------------------------
\* GerenciadorCamarins (camarim.cpp)

Camarim(id, nome, artistaId) ==
    [id |-> id, nome |-> nome, artistaId |-> artistaId, itens |-> EmptyMap]

Camarim_setNome(camarim, nome) ==
    IF nome = "" THEN Outcome(camarim, "ValidacaoException")
    ELSE Outcome([camarim EXCEPT !.nome = nome], "void")

Camarim_setArtistaId(camarim, artistaId) ==
    Outcome([camarim EXCEPT !.artistaId = artistaId], "void")

GerenciadorCamarins_cadastrar(g, nome, artistaId) ==
    IF nome = "" THEN Outcome(g, "ValidacaoException")
    ELSE Retorna([camarins |-> Append(g.camarins, Camarim(g.proximoId, nome, artistaId)),
                  proximoId |-> g.proximoId + 1],
                 g.proximoId)

GerenciadorCamarins_buscarPorId(g, id) ==
    Primeiro({i \in 1 .. Len(g.camarins) : g.camarins[i].id = id})

\* Variant: the last element is moved into the place of the removed one.
GerenciadorCamarins_remover_TrocaComUltimo(g, id) ==
    LET pos == GerenciadorCamarins_buscarPorId(g, id)
        n == Len(g.camarins)
    IN IF pos # nullptr
       THEN Outcome([g EXCEPT !.camarins =
                        SubSeq([g.camarins EXCEPT ![pos] = g.camarins[n]], 1, n - 1)],
                    "true")
       ELSE Outcome(g, "false")

GerenciadorCamarins_remover(g, id) ==
    LET Fica(camarim) == camarim.id # id
        ficam == SelectSeq(g.camarins, Fica)
    IN IF Len(ficam) # Len(g.camarins)
       THEN Outcome([g EXCEPT !.camarins = ficam], "true")
       ELSE Outcome(g, "false")

\* listar() returns a copy of the vector.
GerenciadorCamarins_listar(g) == g.camarins

\* Variant: an id that is not held makes the call return false, as remover does.
GerenciadorCamarins_atualizar_RetornaFalse(g, id, nome, artistaId) ==
    LET camarim == GerenciadorCamarins_buscarPorId(g, id) IN
    IF camarim = nullptr THEN Outcome(g, "false")
    ELSE LET comNome == Camarim_setNome(g.camarins[camarim], nome) IN
         IF comNome.result # "void" THEN Outcome(g, comNome.result)
         ELSE LET comArtista == Camarim_setArtistaId(comNome.state, artistaId) IN
              Outcome([g EXCEPT !.camarins[camarim] = comArtista.state], "true")

GerenciadorCamarins_atualizar(g, id, nome, artistaId) ==
    LET camarim == GerenciadorCamarins_buscarPorId(g, id) IN
    IF camarim = nullptr THEN Outcome(g, "CamarimException")
    ELSE LET comNome == Camarim_setNome(g.camarins[camarim], nome) IN
         IF comNome.result # "void" THEN Outcome(g, comNome.result)
         ELSE LET comArtista == Camarim_setArtistaId(comNome.state, artistaId) IN
              Outcome([g EXCEPT !.camarins[camarim] = comArtista.state], "true")

DoGerenciadorCamarins_cadastrar ==
    \E n \in NomeCamarimInputs, a \in IdInputs :
        LET out == GerenciadorCamarins_cadastrar(gerenciadorCamarins, n, a) IN
        /\ gerenciadorCamarins.proximoId <= MaxId
        /\ gerenciadorCamarins' = out.state
        /\ call' = [NoCall EXCEPT !.op = "GerenciadorCamarins::cadastrar", !.nome = n,
                                  !.artistaId = a]
        /\ result' = out.result
        /\ retorno' = ValorDe(out)
        /\ UNCHANGED <<estoqueItens, camarimItens, pedido, listaItens,
                       gerenciadorItens, gerenciadorArtistas,
                       gerenciadorPedidos, gerenciadorListaCompras>>

DoGerenciadorCamarins_remover ==
    \E i \in IdEntidadeInputs :
        LET out == GerenciadorCamarins_remover(gerenciadorCamarins, i) IN
        /\ gerenciadorCamarins' = out.state
        /\ call' = [NoCall EXCEPT !.op = "GerenciadorCamarins::remover", !.id = i]
        /\ result' = out.result
        /\ retorno' = <<>>
        /\ UNCHANGED <<estoqueItens, camarimItens, pedido, listaItens,
                       gerenciadorItens, gerenciadorArtistas,
                       gerenciadorPedidos, gerenciadorListaCompras>>

DoGerenciadorCamarins_atualizar ==
    \E i \in IdEntidadeInputs, n \in NomeCamarimInputs, a \in IdInputs :
        LET out == GerenciadorCamarins_atualizar(gerenciadorCamarins, i, n, a) IN
        /\ gerenciadorCamarins' = out.state
        /\ call' = [NoCall EXCEPT !.op = "GerenciadorCamarins::atualizar", !.id = i,
                                  !.nome = n, !.artistaId = a]
        /\ result' = out.result
        /\ retorno' = <<>>
        /\ UNCHANGED <<estoqueItens, camarimItens, pedido, listaItens,
                       gerenciadorItens, gerenciadorArtistas,
                       gerenciadorPedidos, gerenciadorListaCompras>>

----------------------------------------------------------------------------
\* GerenciadorPedidos (pedido.cpp)

Pedido(id, camarimId, nomeArtista) ==
    [id |-> id, camarimId |-> camarimId, nomeArtista |-> nomeArtista,
     itens |-> EmptyMap, atendido |-> FALSE]

\* Variant: the new id is the number of orders held plus one.
GerenciadorPedidos_criar_ContaMaisUm(g, camarimId, nomeArtista) ==
    IF camarimId < 0 THEN Outcome(g, "ValidacaoException")
    ELSE IF nomeArtista = "" THEN Outcome(g, "ValidacaoException")
    ELSE Retorna([pedidos |-> Append(g.pedidos,
                                     Pedido(Len(g.pedidos) + 1, camarimId, nomeArtista)),
                  proximoId |-> g.proximoId + 1],
                 Len(g.pedidos) + 1)

GerenciadorPedidos_criar(g, camarimId, nomeArtista) ==
    IF camarimId < 0 THEN Outcome(g, "ValidacaoException")
    ELSE IF nomeArtista = "" THEN Outcome(g, "ValidacaoException")
    ELSE Retorna([pedidos |-> Append(g.pedidos, Pedido(g.proximoId, camarimId, nomeArtista)),
                  proximoId |-> g.proximoId + 1],
                 g.proximoId)

GerenciadorPedidos_remover(g, id) ==
    LET Fica(p) == p.id # id
        ficam == SelectSeq(g.pedidos, Fica)
    IN IF Len(ficam) # Len(g.pedidos)
       THEN Outcome([g EXCEPT !.pedidos = ficam], "true")
       ELSE Outcome(g, "false")

\* listar() returns a copy of the vector.
GerenciadorPedidos_listar(g) == g.pedidos

DoGerenciadorPedidos_criar ==
    \E c \in IdInputs, n \in NomeArtistaInputs :
        LET out == GerenciadorPedidos_criar(gerenciadorPedidos, c, n) IN
        /\ gerenciadorPedidos.proximoId <= MaxId
        /\ gerenciadorPedidos' = out.state
        /\ call' = [NoCall EXCEPT !.op = "GerenciadorPedidos::criar", !.camarimId = c,
                                  !.nomeArtista = n]
        /\ result' = out.result
        /\ retorno' = ValorDe(out)
        /\ UNCHANGED <<estoqueItens, camarimItens, pedido, listaItens,
                       gerenciadorItens, gerenciadorArtistas,
                       gerenciadorCamarins, gerenciadorListaCompras>>

DoGerenciadorPedidos_remover ==
    \E i \in IdEntidadeInputs :
        LET out == GerenciadorPedidos_remover(gerenciadorPedidos, i) IN
        /\ gerenciadorPedidos' = out.state
        /\ call' = [NoCall EXCEPT !.op = "GerenciadorPedidos::remover", !.id = i]
        /\ result' = out.result
        /\ retorno' = <<>>
        /\ UNCHANGED <<estoqueItens, camarimItens, pedido, listaItens,
                       gerenciadorItens, gerenciadorArtistas,
                       gerenciadorCamarins, gerenciadorListaCompras>>

----------------------------------------------------------------------------
\* GerenciadorListaCompras (listacompras.cpp)

ListaCompras(id, descricao) == [id |-> id, descricao |-> descricao, itens |-> EmptyMap]

GerenciadorListaCompras_criar(g, descricao) ==
    IF descricao = "" THEN Outcome(g, "ValidacaoException")
    ELSE Retorna([listas |-> Append(g.listas, ListaCompras(g.proximoId, descricao)),
                  proximoId |-> g.proximoId + 1],
                 g.proximoId)

GerenciadorListaCompras_remover(g, id) ==
    LET Fica(l) == l.id # id
        ficam == SelectSeq(g.listas, Fica)
    IN IF Len(ficam) # Len(g.listas)
       THEN Outcome([g EXCEPT !.listas = ficam], "true")
       ELSE Outcome(g, "false")

\* listar() returns a copy of the vector.
GerenciadorListaCompras_listar(g) == g.listas

DoGerenciadorListaCompras_criar ==
    \E d \in DescricaoInputs :
        LET out == GerenciadorListaCompras_criar(gerenciadorListaCompras, d) IN
        /\ gerenciadorListaCompras.proximoId <= MaxId
        /\ gerenciadorListaCompras' = out.state
        /\ call' = [NoCall EXCEPT !.op = "GerenciadorListaCompras::criar", !.descricao = d]
        /\ result' = out.result
        /\ retorno' = ValorDe(out)
        /\ UNCHANGED <<estoqueItens, camarimItens, pedido, listaItens,
                       gerenciadorItens, gerenciadorArtistas,
                       gerenciadorCamarins, gerenciadorPedidos>>

DoGerenciadorListaCompras_remover ==
    \E i \in IdEntidadeInputs :
        LET out == GerenciadorListaCompras_remover(gerenciadorListaCompras, i) IN
        /\ gerenciadorListaCompras' = out.state
        /\ call' = [NoCall EXCEPT !.op = "GerenciadorListaCompras::remover", !.id = i]
        /\ result' = out.result
        /\ retorno' = <<>>
        /\ UNCHANGED <<estoqueItens, camarimItens, pedido, listaItens,
                       gerenciadorItens, gerenciadorArtistas,
                       gerenciadorCamarins, gerenciadorPedidos>>

----------------------------------------------------------------------------
\* Exception classes (excecoes.h) and a chain of catch clauses

\* The class each exception class derives from.
Base_DoisNiveis(classe) ==
    CASE classe = "ExcecaoBase" -> "exception"
      [] classe \in {"ValidacaoException", "ArtistaException", "ItemException",
                     "EstoqueException", "EstoqueInsuficienteException",
                     "CamarimException", "PedidoException", "ListaComprasException"}
         -> "ExcecaoBase"

Base(classe) ==
    CASE classe = "ExcecaoBase" -> "exception"
      [] classe = "EstoqueInsuficienteException" -> "EstoqueException"
      [] classe \in {"ValidacaoException", "ArtistaException", "ItemException",
                     "EstoqueException", "CamarimException", "PedidoException",
                     "ListaComprasException"}
         -> "ExcecaoBase"

\* The text each constructor puts in front of its argument before it passes
\* it to the constructor of its base class.
Prefixo(classe) ==
    CASE classe = "EstoqueInsuficienteException" -> "Estoque insuficiente: "
      [] classe = "EstoqueException" -> "Erro de Estoque: "
      [] classe = "ExcecaoBase" -> ""

\* what() of an exception of this class constructed with msg.
RECURSIVE What(_, _)
What(classe, msg) ==
    IF classe = "ExcecaoBase" THEN msg
    ELSE What(Base(classe), Prefixo(classe) \o msg)

RECURSIVE Ancestrais(_)
Ancestrais(classe) ==
    IF classe = "exception" THEN {classe}
    ELSE {classe} \cup Ancestrais(Base(classe))

\* catch (const handler&) matches an exception of this class.
Captura(handler, classe) == handler \in Ancestrais(classe)

\* The clause of a chain of catch clauses that handles the exception: the
\* first one that matches, or nullptr when none does.
Despacha(cadeia, classe) ==
    Primeiro({i \in 1 .. Len(cadeia) : Captura(cadeia[i], classe)})

CadeiaEstoque == <<"EstoqueInsuficienteException", "EstoqueException", "ExcecaoBase">>

----------------------------------------------------------------------------
\* Specifications

PedidoInicial ==
    [id |-> 1, camarimId |-> 1, nomeArtista |-> "Ana", itens |-> EmptyMap,
     atendido |-> FALSE]

Init ==
    /\ estoqueItens = EmptyMap
    /\ camarimItens = EmptyMap
    /\ pedido = PedidoInicial
    /\ listaItens = EmptyMap
    /\ gerenciadorItens = [itens |-> <<>>, proximoId |-> 1]
    /\ gerenciadorArtistas = [artistas |-> <<>>, proximoId |-> 1]
    /\ gerenciadorCamarins = [camarins |-> <<>>, proximoId |-> 1]
    /\ gerenciadorPedidos = [pedidos |-> <<>>, proximoId |-> 1]
    /\ gerenciadorListaCompras = [listas |-> <<>>, proximoId |-> 1]
    /\ call = NoCall
    /\ result = "none"
    /\ retorno = <<>>

NextEstoque ==
    \/ DoEstoque_adicionarItem
    \/ DoEstoque_removerItem
    \/ DoEstoque_atualizarQuantidade
    \/ DoEstoque_verificarDisponibilidade

NextCamarim ==
    \/ DoCamarim_inserirItem
    \/ DoCamarim_removerItem

NextPedidoItens ==
    \/ DoPedido_adicionarItem
    \/ DoPedido_removerItem
    \/ DoPedido_marcarAtendido
    \/ DoPedido_setAtendido

NextPedido ==
    \/ NextPedidoItens
    \/ DoPedido_setId
    \/ DoPedido_setCamarimId
    \/ DoPedido_setNomeArtista

NextListaCompras ==
    \/ DoListaCompras_adicionarItem
    \/ DoListaCompras_removerItem
    \/ DoListaCompras_atualizarQuantidade
    \/ DoListaCompras_limpar
    \/ DoListaCompras_calcularTotal

\* The stock, a dressing room and an order, one object driven at a time: no
\* method of one class reads or writes another object, so each object passes
\* through all its states while the other two are as constructed.
Next ==
    \/ (camarimItens = EmptyMap /\ pedido = PedidoInicial /\ NextEstoque)
    \/ (estoqueItens = EmptyMap /\ pedido = PedidoInicial /\ NextCamarim)
    \/ (estoqueItens = EmptyMap /\ camarimItens = EmptyMap /\ NextPedidoItens)

Spec == Init /\ [][Next]_vars

SpecEstoque == Init /\ [][NextEstoque]_vars

SpecPedido == Init /\ [][NextPedido]_vars

SpecListaCompras == Init /\ [][NextListaCompras]_vars

\* The item ledgers of a dressing room, an order and a shopping list, one
\* object driven at a time while the other two are as constructed.
NextQuantidades ==
    \/ (pedido = PedidoInicial /\ listaItens = EmptyMap /\ NextCamarim)
    \/ (camarimItens = EmptyMap /\ listaItens = EmptyMap /\ NextPedidoItens)
    \/ (camarimItens = EmptyMap /\ pedido = PedidoInicial /\ NextListaCompras)

SpecQuantidades == Init /\ [][NextQuantidades]_vars

NextGerenciadorItens ==
    \/ DoGerenciadorItens_cadastrar
    \/ DoGerenciadorItens_buscarPorId
    \/ DoGerenciadorItens_buscarPorNome
    \/ DoGerenciadorItens_remover
    \/ DoGerenciadorItens_atualizar

SpecGerenciadorItens == Init /\ [][NextGerenciadorItens]_vars

NextGerenciadorArtistas ==
    \/ DoGerenciadorArtistas_cadastrar
    \/ DoGerenciadorArtistas_remover
    \/ DoGerenciadorArtistas_atualizar

NextGerenciadorCamarins ==
    \/ DoGerenciadorCamarins_cadastrar
    \/ DoGerenciadorCamarins_remover
    \/ DoGerenciadorCamarins_atualizar

NextGerenciadorPedidos ==
    \/ DoGerenciadorPedidos_criar
    \/ DoGerenciadorPedidos_remover

NextGerenciadorListaCompras ==
    \/ DoGerenciadorListaCompras_criar
    \/ DoGerenciadorListaCompras_remover

\* A manager that has created nothing yet.
SemUso(g) == g.proximoId = 1

\* The five managers, one driven at a time: no manager reads or writes
\* another, so each passes through all its states while the others are as
\* constructed.
NextGerenciadores ==
    \/ (/\ SemUso(gerenciadorArtistas) /\ SemUso(gerenciadorCamarins)
        /\ SemUso(gerenciadorPedidos) /\ SemUso(gerenciadorListaCompras)
        /\ NextGerenciadorItens)
    \/ (/\ SemUso(gerenciadorItens) /\ SemUso(gerenciadorCamarins)
        /\ SemUso(gerenciadorPedidos) /\ SemUso(gerenciadorListaCompras)
        /\ NextGerenciadorArtistas)
    \/ (/\ SemUso(gerenciadorItens) /\ SemUso(gerenciadorArtistas)
        /\ SemUso(gerenciadorPedidos) /\ SemUso(gerenciadorListaCompras)
        /\ NextGerenciadorCamarins)
    \/ (/\ SemUso(gerenciadorItens) /\ SemUso(gerenciadorArtistas)
        /\ SemUso(gerenciadorCamarins) /\ SemUso(gerenciadorListaCompras)
        /\ NextGerenciadorPedidos)
    \/ (/\ SemUso(gerenciadorItens) /\ SemUso(gerenciadorArtistas)
        /\ SemUso(gerenciadorCamarins) /\ SemUso(gerenciadorPedidos)
        /\ NextGerenciadorListaCompras)

SpecGerenciadores == Init /\ [][NextGerenciadores]_vars

\* The system in use: item 1 is in the catalog and in all four ledgers with
\* some quantity, and every manager holds two entities, each reached from the
\* constructed state by the calls written here.
InitEmUso ==
    /\ \E q \in 1 .. MaxQty :
          /\ estoqueItens = Estoque_adicionarItem(EmptyMap, 1, "Toalha", q).state
          /\ camarimItens = Camarim_inserirItem(EmptyMap, 1, "Toalha", q).state
          /\ pedido = Pedido_adicionarItem(PedidoInicial, 1, "Toalha", q).state
          /\ listaItens = ListaCompras_adicionarItem(EmptyMap, 1, "Toalha", q, 2).state
    /\ gerenciadorItens =
          GerenciadorItens_cadastrar(
              GerenciadorItens_cadastrar([itens |-> <<>>, proximoId |-> 1],
                                         "Toalha", 2).state,
              "Agua", 0).state
    /\ gerenciadorArtistas =
          GerenciadorArtistas_cadastrar(
              GerenciadorArtistas_cadastrar([artistas |-> <<>>, proximoId |-> 1],
                                            "Bia", 1).state,
              "Bia", 2).state
    /\ gerenciadorCamarins =
          GerenciadorCamarins_cadastrar(
              GerenciadorCamarins_cadastrar([camarins |-> <<>>, proximoId |-> 1],
                                            "Camarim A", 1).state,
              "Camarim A", 2).state
    /\ gerenciadorPedidos =
          GerenciadorPedidos_criar(
              GerenciadorPedidos_criar([pedidos |-> <<>>, proximoId |-> 1],
                                       1, "Bia").state,
              2, "Bia").state
    /\ gerenciadorListaCompras =
          GerenciadorListaCompras_criar(
              GerenciadorListaCompras_criar([listas |-> <<>>, proximoId |-> 1],
                                            "Semana").state,
              "Semana").state
    /\ call = NoCall
    /\ result = "none"
    /\ retorno = <<>>

NextRemocao ==
    \/ DoGerenciadorItens_remover
    \/ DoGerenciadorArtistas_remover
    \/ DoGerenciadorCamarins_remover
    \/ DoGerenciadorPedidos_remover
    \/ DoGerenciadorListaCompras_remover

SpecRemocao == InitEmUso /\ [][NextRemocao]_vars

\* A session that stocks the central stock, then fills the dressing room, then
\* works on the order, so the order is fulfilled while both ledgers hold items.
NextAtendimento ==
    \/ (camarimItens = EmptyMap /\ pedido = PedidoInicial /\ DoEstoque_adicionarItem)
    \/ (pedido = PedidoInicial /\ DoCamarim_inserirItem)
    \/ DoPedido_adicionarItem
    \/ DoPedido_marcarAtendido

SpecAtendimento == Init /\ [][NextAtendimento]_vars

----------------------------------------------------------------------------
\* Properties.  A step's call and outcome are call' and result'; the unprimed
\* variables are the object before the call.

\* Every key other than i is in both maps with the same record.
OutrosIguais(antes, depois, i) ==
    /\ (DOMAIN antes) \ {i} = (DOMAIN depois) \ {i}
    /\ \A k \in (DOMAIN antes) \ {i} : depois[k] = antes[k]

\* C1: in every reachable state of the stock (adicionarItem, removerItem and
\* atualizarQuantidade from an empty stock) no record has quantity 0.
C1_EstoqueSemQuantidadeZero ==
    \A k \in DOMAIN estoqueItens : estoqueItens[k].quantidade # 0

\* C2: Estoque::adicionarItem with quantity 0, a valid id and a non-empty name
\* raises nothing and leaves the set of item ids and every stored quantity as
\* they were, whether or not the id already had a record.
C2_AdicionarZeroNaoAltera ==
    [][(/\ call'.op = "Estoque::adicionarItem"
        /\ call'.quantidade = 0
        /\ call'.itemId >= 0
        /\ call'.nomeItem # "")
       => (/\ result' = "void"
           /\ DOMAIN estoqueItens' = DOMAIN estoqueItens
           /\ \A k \in DOMAIN estoqueItens :
                  estoqueItens'[k].quantidade = estoqueItens[k].quantidade)]_vars

\* C3 as stated: once an order is fulfilled, every later state is fulfilled and
\* has the same item ledger, whatever public operation is called.
C3_AtendidoTerminal ==
    [][pedido.atendido => (pedido'.atendido /\ pedido'.itens = pedido.itens)]_vars

\* C3 amended: while an order is fulfilled no operation changes its item ledger,
\* and the only operation that makes it pending again is setAtendido(false).
C3_AtendidoCongelaItens ==
    [][pedido.atendido =>
          (/\ pedido'.itens = pedido.itens
           /\ (pedido'.atendido
               \/ (call'.op = "Pedido::setAtendido" /\ call'.atendido = FALSE)))]_vars

C3_Witness ==
    /\ pedido.atendido
    /\ DOMAIN pedido.itens # {}
    /\ call.op = "Pedido::removerItem"
    /\ call.itemId \in DOMAIN pedido.itens
    /\ result = "PedidoException"

\* C4 as stated: ListaCompras::adicionarItem on an item already in the list adds
\* the quantity and recomputes the subtotal with the unit price of this call.
C4_SubtotalPrecoDaChamada ==
    [][(/\ call'.op = "ListaCompras::adicionarItem"
        /\ result' = "void"
        /\ call'.itemId \in DOMAIN listaItens)
       => (/\ listaItens'[call'.itemId].quantidade =
                  listaItens[call'.itemId].quantidade + call'.quantidade
           /\ listaItens'[call'.itemId].subtotal =
                  listaItens'[call'.itemId].quantidade * call'.preco)]_vars

\* C4 amended: ListaCompras::adicionarItem on an item already in the list adds
\* the quantity, keeps the stored unit price and recomputes the subtotal as the
\* new quantity times the stored unit price; the price argument is only validated.
C4_SubtotalPrecoArmazenado ==
    [][(/\ call'.op = "ListaCompras::adicionarItem"
        /\ result' = "void"
        /\ call'.itemId \in DOMAIN listaItens)
       => (/\ listaItens'[call'.itemId].quantidade =
                  listaItens[call'.itemId].quantidade + call'.quantidade
           /\ listaItens'[call'.itemId].preco = listaItens[call'.itemId].preco
           /\ listaItens'[call'.itemId].subtotal =
                  listaItens'[call'.itemId].quantidade * listaItens[call'.itemId].preco
           /\ OutrosIguais(listaItens, listaItens', call'.itemId))]_vars

C4_Witness ==
    /\ call.op = "ListaCompras::adicionarItem"
    /\ result = "void"
    /\ call.itemId \in DOMAIN listaItens
    /\ listaItens[call.itemId].quantidade > call.quantidade
    /\ listaItens[call.itemId].preco # call.preco
    /\ listaItens[call.itemId].subtotal # listaItens[call.itemId].quantidade * call.preco

\* A successful upsert of delta on item i: quantity before + delta when i had a
\* record, exactly delta otherwise; all other records unchanged.
UpsertSoma(antes, depois, i, delta) ==
    /\ i \in DOMAIN depois
    /\ depois[i].quantidade =
           (IF i \in DOMAIN antes THEN antes[i].quantidade + delta ELSE delta)
    /\ OutrosIguais(antes, depois, i)

\* C5: a successful Estoque::adicionarItem, Camarim::inserirItem or
\* Pedido::adicionarItem with quantity delta sets the item's quantity to
\* quantity before + delta when the id had a record, creates a record with
\* quantity delta otherwise, and leaves the records of all other ids unchanged.
C5_UpsertSoma ==
    [][/\ (call'.op = "Estoque::adicionarItem" /\ result' = "void")
          => UpsertSoma(estoqueItens, estoqueItens', call'.itemId, call'.quantidade)
       /\ (call'.op = "Camarim::inserirItem" /\ result' = "void")
          => UpsertSoma(camarimItens, camarimItens', call'.itemId, call'.quantidade)
       /\ (call'.op = "Pedido::adicionarItem" /\ result' = "void")
          => UpsertSoma(pedido.itens, pedido'.itens, call'.itemId, call'.quantidade)]_vars

C5_Witness ==
    /\ call.op = "Camarim::inserirItem"
    /\ result = "void"
    /\ camarimItens[call.itemId].quantidade > call.quantidade
    /\ Cardinality(DOMAIN camarimItens) = 2

\* A withdrawal of q of item i present in the ledger: exactly the stored
\* quantity succeeds and leaves no record for i; a smaller positive q succeeds
\* and reduces the record by q; other records unchanged.
RetiradaColapsa(antes, depois, i, q, res) ==
    /\ (i \in DOMAIN antes /\ q = antes[i].quantidade)
       => (res = "true" /\ i \notin DOMAIN depois /\ OutrosIguais(antes, depois, i))
    /\ (i \in DOMAIN antes /\ 0 < q /\ q < antes[i].quantidade)
       => (/\ res = "true"
           /\ depois = [antes EXCEPT ![i].quantidade = antes[i].quantidade - q])

\* C6: Estoque::removerItem and Camarim::removerItem of exactly the stored
\* quantity succeed and leave no record for the id; of a smaller positive
\* quantity q they leave the record reduced by exactly q; other ids unchanged.
C6_RetiradaColapsa ==
    [][/\ (call'.op = "Estoque::removerItem")
          => RetiradaColapsa(estoqueItens, estoqueItens', call'.itemId,
                             call'.quantidade, result')
       /\ (call'.op = "Camarim::removerItem")
          => RetiradaColapsa(camarimItens, camarimItens', call'.itemId,
                             call'.quantidade, result')]_vars

C6_Witness ==
    /\ call.op = "Estoque::removerItem"
    /\ result = "true"
    /\ call.quantidade > 0
    /\ call.itemId \notin DOMAIN estoqueItens
    /\ DOMAIN estoqueItens # {}

C8_ValidacaoSseNegativa ==
    [][/\ (call'.op = "Estoque::removerItem" /\ call'.itemId \in DOMAIN estoqueItens)
          => (result' = "ValidacaoException" <=> call'.quantidade < 0)
       /\ (call'.op = "Camarim::removerItem" /\ call'.itemId \in DOMAIN camarimItens)
          => (result' = "ValidacaoException" <=> call'.quantidade < 0)]_vars

\* C8 amended: a withdrawal from a present item raises ValidacaoException if and
\* only if the quantity is negative in the stock, and if and only if the
\* quantity is zero or negative in a dressing room.
C8_ValidacaoPorLedger ==
    [][/\ (call'.op = "Estoque::removerItem" /\ call'.itemId \in DOMAIN estoqueItens)
          => (result' = "ValidacaoException" <=> call'.quantidade < 0)
       /\ (call'.op = "Camarim::removerItem" /\ call'.itemId \in DOMAIN camarimItens)
          => (result' = "ValidacaoException" <=> call'.quantidade <= 0)]_vars

C8_Witness ==
    /\ call.op = "Camarim::removerItem"
    /\ call.quantidade = 0
    /\ call.itemId \in DOMAIN camarimItens
    /\ result = "ValidacaoException"

\* C9: Estoque::removerItem of an id the stock has no record for raises
\* EstoqueException (not EstoqueInsuficienteException) for any quantity and
\* leaves the stock unchanged.
C9_RetiradaDeAusente ==
    [][(call'.op = "Estoque::removerItem" /\ call'.itemId \notin DOMAIN estoqueItens)
       => (result' = "EstoqueException" /\ estoqueItens' = estoqueItens)]_vars

C9_Witness ==
    /\ call.op = "Estoque::removerItem"
    /\ call.quantidade < 0
    /\ call.itemId >= 0
    /\ call.itemId \notin DOMAIN estoqueItens
    /\ DOMAIN estoqueItens # {}
    /\ result = "EstoqueException"

\* C10: on a fulfilled order every Pedido::adicionarItem and Pedido::removerItem
\* raises PedidoException whatever the arguments and leaves the order's ledger
\* and fulfilled flag unchanged.
C10_AtendidoRejeita ==
    [][(/\ pedido.atendido
        /\ call'.op \in {"Pedido::adicionarItem", "Pedido::removerItem"})
       => (result' = "PedidoException" /\ pedido' = pedido)]_vars

C10_Witness ==
    /\ pedido.atendido
    /\ call.op = "Pedido::adicionarItem"
    /\ call.itemId < 0
    /\ call.nomeItem = ""
    /\ call.quantidade <= 0
    /\ result = "PedidoException"

\* C11: Pedido::marcarAtendido never fails; after it the order is fulfilled and
\* everything else in the order is as before; a second call returns normally
\* and leaves the state of the first; the stock ledger, the dressing-room
\* ledger and the shopping list are unchanged by the call.
C11_MarcarAtendidoIdempotente ==
    [][(call'.op = "Pedido::marcarAtendido")
       => (/\ result' = "void"
           /\ pedido'.atendido
           /\ pedido' = [pedido EXCEPT !.atendido = TRUE]
           /\ Pedido_marcarAtendido(pedido').result = "void"
           /\ Pedido_marcarAtendido(pedido').state = pedido'
           /\ (pedido.atendido => pedido' = pedido)
           /\ estoqueItens' = estoqueItens
           /\ camarimItens' = camarimItens
           /\ listaItens' = listaItens)]_vars

C11_Witness ==
    /\ call.op = "Pedido::marcarAtendido"
    /\ result = "void"
    /\ pedido.atendido
    /\ DOMAIN pedido.itens # {}
    /\ DOMAIN estoqueItens # {}
    /\ DOMAIN camarimItens # {}

\* Sum of quantity * unit price over the records with keys in chaves.
RECURSIVE SomaQuantidadePreco(_, _)
SomaQuantidadePreco(itens, chaves) ==
    IF chaves = {} THEN 0
    ELSE LET k == CHOOSE x \in chaves : TRUE IN
         itens[k].quantidade * itens[k].preco + SomaQuantidadePreco(itens, chaves \ {k})

\* C12: in every state reachable by ListaCompras::adicionarItem, removerItem,
\* atualizarQuantidade and limpar (successful or failing) every record has
\* subtotal = quantity * unit price, and calcularTotal() is the sum of
\* quantity * unit price over all records (0 for an empty list); item 1 added
\* with quantity 3 at price 2 and again with quantity 2 at price 2 has
\* quantity 5, subtotal 10 and the list total 10.
C12_SubtotalETotal ==
    /\ \A k \in DOMAIN listaItens :
           listaItens[k].subtotal = listaItens[k].quantidade * listaItens[k].preco
    /\ ListaCompras_calcularTotal(listaItens) =
           SomaQuantidadePreco(listaItens, DOMAIN listaItens)
    /\ ListaCompras_calcularTotal(EmptyMap) = 0
    /\ (call.op = "ListaCompras::calcularTotal")
           => retorno = <<SomaQuantidadePreco(listaItens, DOMAIN listaItens)>>
    /\ LET um == ListaCompras_adicionarItem(EmptyMap, 1, "Sabonete", 3, 2).state
           dois == ListaCompras_adicionarItem(um, 1, "Sabonete", 2, 2).state
       IN /\ dois[1].quantidade = 5
          /\ dois[1].subtotal = 10
          /\ ListaCompras_calcularTotal(dois) = 10

C12_Witness ==
    /\ call.op = "ListaCompras::calcularTotal"
    /\ Cardinality(DOMAIN listaItens) = 2
    /\ \E j, k \in DOMAIN listaItens :
           /\ listaItens[j].preco # listaItens[k].preco
           /\ listaItens[j].quantidade > 1
           /\ listaItens[k].subtotal > 0
           /\ retorno = <<listaItens[j].subtotal + listaItens[k].subtotal>>
           /\ listaItens[j].subtotal > 0

\* C13: Estoque::atualizarQuantidade(itemId, n) raises EstoqueException when
\* itemId has no record, whatever n is; raises ValidacaoException when the
\* record exists and n < 0; otherwise returns normally with the stored quantity
\* replaced by n, and with the record removed when n = 0; other records are
\* untouched and on either failure the stock is unchanged.
C13_EstoqueAtualizarQuantidade ==
    [][(call'.op = "Estoque::atualizarQuantidade")
       => LET i == call'.itemId
              n == call'.quantidade
          IN /\ (i \notin DOMAIN estoqueItens)
                   => (result' = "EstoqueException" /\ estoqueItens' = estoqueItens)
             /\ (i \in DOMAIN estoqueItens /\ n < 0)
                   => (result' = "ValidacaoException" /\ estoqueItens' = estoqueItens)
             /\ (i \in DOMAIN estoqueItens /\ n = 0)
                   => (/\ result' = "void"
                       /\ i \notin DOMAIN estoqueItens'
                       /\ OutrosIguais(estoqueItens, estoqueItens', i))
             /\ (i \in DOMAIN estoqueItens /\ n > 0)
                   => (/\ result' = "void"
                       /\ estoqueItens' = [estoqueItens EXCEPT ![i].quantidade = n])]_vars

C13_Witness ==
    /\ call.op = "Estoque::atualizarQuantidade"
    /\ call.quantidade = 0
    /\ result = "void"
    /\ call.itemId \notin DOMAIN estoqueItens
    /\ \E k \in DOMAIN estoqueItens : estoqueItens[k].quantidade = MaxQty

\* C14: ListaCompras::atualizarQuantidade(itemId, n) raises
\* ListaComprasException when itemId has no record, raises ValidacaoException
\* when the record exists and n <= 0, and otherwise returns normally with the
\* quantity replaced by n and the subtotal set to n times the stored unit
\* price; the record is never removed, its name and price and all other
\* records stay, and on either failure the list is unchanged.
C14_ListaAtualizarQuantidade ==
    [][(call'.op = "ListaCompras::atualizarQuantidade")
       => LET i == call'.itemId
              n == call'.quantidade
          IN /\ (i \notin DOMAIN listaItens)
                   => (result' = "ListaComprasException" /\ listaItens' = listaItens)
             /\ (i \in DOMAIN listaItens /\ n <= 0)
                   => (result' = "ValidacaoException" /\ listaItens' = listaItens)
             /\ (i \in DOMAIN listaItens /\ n > 0)
                   => (/\ result' = "void"
                       /\ listaItens' =
                              [listaItens EXCEPT ![i].quantidade = n,
                                                 ![i].subtotal = n * listaItens[i].preco])
             /\ DOMAIN listaItens' = DOMAIN listaItens]_vars

C14_Witness ==
    /\ call.op = "ListaCompras::atualizarQuantidade"
    /\ result = "void"
    /\ Cardinality(DOMAIN listaItens) = 2
    /\ listaItens[call.itemId].quantidade = 1
    /\ listaItens[call.itemId].preco = 3
    /\ listaItens[call.itemId].subtotal = 3

\* C15: Estoque::verificarDisponibilidade(itemId, quantity) returns true if and
\* only if the stock has a record for itemId whose stored quantity is at least
\* quantity, returns false otherwise, raises nothing for any arguments and
\* leaves the stock as it was.
C15_VerificarDisponibilidade ==
    [][(call'.op = "Estoque::verificarDisponibilidade")
       => (/\ result' \in {"true", "false"}
           /\ (result' = "true")
                 <=> (/\ call'.itemId \in DOMAIN estoqueItens
                      /\ estoqueItens[call'.itemId].quantidade >= call'.quantidade)
           /\ estoqueItens' = estoqueItens)]_vars

C15_Witness ==
    /\ call.op = "Estoque::verificarDisponibilidade"
    /\ result = "false"
    /\ call.quantidade <= 0
    /\ call.itemId >= 0
    /\ call.itemId \notin DOMAIN estoqueItens
    /\ DOMAIN estoqueItens # {}

\* C16: in every state reachable by GerenciadorItens::cadastrar, atualizar and
\* remover (successful or failing) no two catalog entries have the same name.
C16_NomesUnicos ==
    \A i, j \in 1 .. Len(gerenciadorItens.itens) :
        (i # j) => gerenciadorItens.itens[i].nome # gerenciadorItens.itens[j].nome

C16_Witness ==
    /\ Len(gerenciadorItens.itens) = 2
    /\ call.op = "GerenciadorItens::atualizar"
    /\ result = "true"
    /\ \E i \in 1 .. 2 :
           /\ gerenciadorItens.itens[i].id = call.id
           /\ gerenciadorItens.itens[i].nome = call.nome

\* The entries of the catalog g other than the one with this id.
OutrosItens(g, id) ==
    LET Outro(item) == item.id # id IN SelectSeq(g.itens, Outro)

IdsDe(vetor) == {vetor[i].id : i \in 1 .. Len(vetor)}

\* One step of a manager seen from its id counter and its vector: a create
\* that succeeded returned the counter, appended one entity with that id and
\* advanced the counter by one; any other call left the counter alone and
\* added no id; the ids held are distinct, at least 1 and below the counter.
EmissaoDeIds(proximoAntes, vetorAntes, proximoDepois, vetorDepois, criou, devolvido) ==
    /\ proximoAntes >= 1
    /\ IF criou
       THEN /\ devolvido = <<proximoAntes>>
            /\ proximoDepois = proximoAntes + 1
            /\ Len(vetorDepois) = Len(vetorAntes) + 1
            /\ SubSeq(vetorDepois, 1, Len(vetorAntes)) = vetorAntes
            /\ vetorDepois[Len(vetorDepois)].id = proximoAntes
       ELSE /\ proximoDepois = proximoAntes
            /\ IdsDe(vetorDepois) \subseteq IdsDe(vetorAntes)
    /\ \A id \in IdsDe(vetorDepois) : 1 <= id /\ id < proximoDepois
    /\ \A i, j \in 1 .. Len(vetorDepois) :
           (i # j) => vetorDepois[i].id # vetorDepois[j].id

\* C18: in each of the five managers the id counter starts at 1, every
\* successful create returns the counter and advances it by one, and no
\* update, remove or failed create moves it; so the ids returned are 1, 2, 3,
\* ... in order, none is returned again after its entity was removed, and no
\* two entities a manager holds have the same id.
C18_IdsCrescentes ==
    /\ SemUso(gerenciadorItens) /\ SemUso(gerenciadorArtistas)
    /\ SemUso(gerenciadorCamarins) /\ SemUso(gerenciadorPedidos)
    /\ SemUso(gerenciadorListaCompras)
    /\ [][LET Criou(op) == call'.op = op /\ result' = "valor" IN
          /\ EmissaoDeIds(gerenciadorItens.proximoId, gerenciadorItens.itens,
                          gerenciadorItens'.proximoId, gerenciadorItens'.itens,
                          Criou("GerenciadorItens::cadastrar"), retorno')
          /\ EmissaoDeIds(gerenciadorArtistas.proximoId, gerenciadorArtistas.artistas,
                          gerenciadorArtistas'.proximoId, gerenciadorArtistas'.artistas,
                          Criou("GerenciadorArtistas::cadastrar"), retorno')
          /\ EmissaoDeIds(gerenciadorCamarins.proximoId, gerenciadorCamarins.camarins,
                          gerenciadorCamarins'.proximoId, gerenciadorCamarins'.camarins,
                          Criou("GerenciadorCamarins::cadastrar"), retorno')
          /\ EmissaoDeIds(gerenciadorPedidos.proximoId, gerenciadorPedidos.pedidos,
                          gerenciadorPedidos'.proximoId, gerenciadorPedidos'.pedidos,
                          Criou("GerenciadorPedidos::criar"), retorno')
          /\ EmissaoDeIds(gerenciadorListaCompras.proximoId,
                          gerenciadorListaCompras.listas,
                          gerenciadorListaCompras'.proximoId,
                          gerenciadorListaCompras'.listas,
                          Criou("GerenciadorListaCompras::criar"), retorno')]_vars

C18_Witness ==
    /\ call.op = "GerenciadorPedidos::criar"
    /\ result = "valor"
    /\ retorno = <<MaxId>>
    /\ Len(gerenciadorPedidos.pedidos) = 1
    /\ gerenciadorPedidos.pedidos[1].id = MaxId

\* C19: in any reachable catalog, buscarPorNome(name) called right after a
\* successful cadastrar(name, price) returns the entry with that name, that
\* price and the id cadastrar returned; buscarPorId(id) called right after
\* remover(id) returns nullptr, whether remover returned true or false.
C19_IdaEVolta ==
    [][/\ (/\ call.op = "GerenciadorItens::cadastrar"
           /\ result = "valor"
           /\ call'.op = "GerenciadorItens::buscarPorNome"
           /\ call'.nome = call.nome)
          => (/\ result' = "valor"
              /\ retorno' = <<Item(retorno[1], call.nome, call.preco)>>)
       /\ (/\ call.op = "GerenciadorItens::remover"
           /\ call'.op = "GerenciadorItens::buscarPorId"
           /\ call'.id = call.id)
          => result' = "nullptr"]_vars

C19_Witness ==
    /\ call.op = "GerenciadorItens::buscarPorNome"
    /\ result = "valor"
    /\ Len(gerenciadorItens.itens) = 2
    /\ retorno = <<gerenciadorItens.itens[2]>>
    /\ retorno[1].id = MaxId
    /\ retorno[1].preco = 0

\* remover(id) on a manager with this vector: true exactly when an entity with
\* the id was held, false otherwise; the vector afterwards is the vector
\* before without that entity, the rest in the same order.
RemoveSoEsse(vetorAntes, vetorDepois, id, res) ==
    LET Fica(e) == e.id # id IN
    /\ res \in {"true", "false"}
    /\ (res = "true") <=> (id \in IdsDe(vetorAntes))
    /\ vetorDepois = SelectSeq(vetorAntes, Fica)

\* C20: remover(id) of each manager raises nothing, returns true exactly when
\* an entity with that id was held, removes that entity only and leaves the id
\* counter; removing a performer leaves the dressing rooms (and every other
\* manager and ledger) unchanged, and removing a catalog item leaves the
\* stock, dressing-room, order and shopping-list ledgers with their records
\* for that id unchanged.
C20_RemoverSemCascata ==
    [][/\ (call'.op = "GerenciadorItens::remover")
          => (/\ RemoveSoEsse(gerenciadorItens.itens, gerenciadorItens'.itens,
                              call'.id, result')
              /\ gerenciadorItens'.proximoId = gerenciadorItens.proximoId
              /\ UNCHANGED <<estoqueItens, camarimItens, pedido, listaItens,
                             gerenciadorArtistas, gerenciadorCamarins,
                             gerenciadorPedidos, gerenciadorListaCompras>>)
       /\ (call'.op = "GerenciadorArtistas::remover")
          => (/\ RemoveSoEsse(gerenciadorArtistas.artistas,
                              gerenciadorArtistas'.artistas, call'.id, result')
              /\ gerenciadorArtistas'.proximoId = gerenciadorArtistas.proximoId
              /\ UNCHANGED <<estoqueItens, camarimItens, pedido, listaItens,
                             gerenciadorItens, gerenciadorCamarins,
                             gerenciadorPedidos, gerenciadorListaCompras>>)
       /\ (call'.op = "GerenciadorCamarins::remover")
          => (/\ RemoveSoEsse(gerenciadorCamarins.camarins,
                              gerenciadorCamarins'.camarins, call'.id, result')
              /\ gerenciadorCamarins'.proximoId = gerenciadorCamarins.proximoId
              /\ UNCHANGED <<estoqueItens, camarimItens, pedido, listaItens,
                             gerenciadorItens, gerenciadorArtistas,
                             gerenciadorPedidos, gerenciadorListaCompras>>)
       /\ (call'.op = "GerenciadorPedidos::remover")
          => (/\ RemoveSoEsse(gerenciadorPedidos.pedidos, gerenciadorPedidos'.pedidos,
                              call'.id, result')
              /\ gerenciadorPedidos'.proximoId = gerenciadorPedidos.proximoId
              /\ UNCHANGED <<estoqueItens, camarimItens, pedido, listaItens,
                             gerenciadorItens, gerenciadorArtistas,
                             gerenciadorCamarins, gerenciadorListaCompras>>)
       /\ (call'.op = "GerenciadorListaCompras::remover")
          => (/\ RemoveSoEsse(gerenciadorListaCompras.listas,
                              gerenciadorListaCompras'.listas, call'.id, result')
              /\ gerenciadorListaCompras'.proximoId = gerenciadorListaCompras.proximoId
              /\ UNCHANGED <<estoqueItens, camarimItens, pedido, listaItens,
                             gerenciadorItens, gerenciadorArtistas,
                             gerenciadorCamarins, gerenciadorPedidos>>)]_vars

C20_Witness ==
    /\ call.op = "GerenciadorItens::remover"
    /\ result = "true"
    /\ call.id \notin IdsDe(gerenciadorItens.itens)
    /\ Len(gerenciadorItens.itens) = 1
    /\ call.id \in DOMAIN estoqueItens
    /\ call.id \in DOMAIN camarimItens
    /\ call.id \in DOMAIN pedido.itens
    /\ call.id \in DOMAIN listaItens
    /\ listaItens[call.id].nomeItem = "Toalha"
    /\ listaItens[call.id].preco = 2
    /\ IdsDe(gerenciadorArtistas.artistas) = {2}
    /\ Len(gerenciadorCamarins.camarins) = 2
    /\ gerenciadorCamarins.camarins[1].artistaId = 1

C22_CamarimValido ==
    \A i \in 1 .. Len(gerenciadorCamarins.camarins) :
        /\ gerenciadorCamarins.camarins[i].nome # ""
        /\ gerenciadorCamarins.camarins[i].artistaId >= 0

\* C23: in every state reachable by GerenciadorArtistas::cadastrar, atualizar
\* and remover every performer the manager holds has a non-empty name and a
\* dressing-room id of 0 or more.
C23_ArtistaValido ==
    \A i \in 1 .. Len(gerenciadorArtistas.artistas) :
        /\ gerenciadorArtistas.artistas[i].nome # ""
        /\ gerenciadorArtistas.artistas[i].camarimId >= 0

\* C24: with catch clauses in the order EstoqueInsuficienteException,
\* EstoqueException, ExcecaoBase, a stock withdrawal of more than the stored
\* quantity is handled by the first clause and would also match the other
\* two; a stock withdrawal of an absent item is handled by the second clause
\* and does not match the first; a ValidacaoException is handled by the third
\* clause and matches neither of the first two; and what() of an
\* EstoqueInsuficienteException is "Erro de Estoque: " followed by
\* "Estoque insuficiente: " followed by the detail it was constructed with.
C24_CapturaHierarquica ==
    [][/\ (/\ call'.op = "Estoque::removerItem"
           /\ call'.itemId \in DOMAIN estoqueItens
           /\ call'.quantidade > estoqueItens[call'.itemId].quantidade)
          => (/\ Despacha(CadeiaEstoque, result') = 1
              /\ Captura("EstoqueException", result')
              /\ Captura("ExcecaoBase", result'))
       /\ (/\ call'.op = "Estoque::removerItem"
           /\ call'.itemId \notin DOMAIN estoqueItens)
          => (/\ Despacha(CadeiaEstoque, result') = 2
              /\ ~Captura("EstoqueInsuficienteException", result'))
       /\ (result' = "ValidacaoException")
          => (/\ Despacha(CadeiaEstoque, result') = 3
              /\ ~Captura("EstoqueInsuficienteException", result')
              /\ ~Captura("EstoqueException", result'))
       /\ \A d \in DetalheInputs :
              What("EstoqueInsuficienteException", d) =
                  "Erro de Estoque: " \o "Estoque insuficiente: " \o d]_vars

C24_Witness ==
    /\ call.op = "Estoque::removerItem"
    /\ call.itemId \in DOMAIN estoqueItens
    /\ call.quantidade > estoqueItens[call.itemId].quantidade
    /\ estoqueItens[call.itemId].quantidade > 0
    /\ result = "EstoqueInsuficienteException"
    /\ Despacha(CadeiaEstoque, result) = 1

\* C25: Camarim::removerItem returns true when it removed the quantity, and
\* when the item is present with less than the requested quantity it returns
\* false, raises nothing and leaves the ledger as it was.
C25_RetornaFalseSeInsuficiente ==
    [][(call'.op = "Camarim::removerItem" /\ call'.itemId \in DOMAIN camarimItens)
       => /\ (/\ call'.quantidade > 0
               /\ call'.quantidade <= camarimItens[call'.itemId].quantidade)
              => result' = "true"
          /\ (call'.quantidade > camarimItens[call'.itemId].quantidade)
              => (result' = "false" /\ camarimItens' = camarimItens)]_vars

\* C26: in every state reached by the item operations of a dressing room, an
\* order and a shopping list, with quantities inside the integer range, every
\* record of the three ledgers has quantity >= 1.
C26_QuantidadePositiva ==
    /\ \A k \in DOMAIN camarimItens : camarimItens[k].quantidade >= 1
    /\ \A k \in DOMAIN pedido.itens : pedido.itens[k].quantidade >= 1
    /\ \A k \in DOMAIN listaItens : listaItens[k].quantidade >= 1

C26_Witness ==
    /\ call.op = "Camarim::removerItem"
    /\ result = "true"
    /\ call.itemId \notin DOMAIN camarimItens
    /\ camarimItens # EmptyMap

\* C27: an update that raises leaves the entity as it was: the catalog entry
\* keeps its name and price when GerenciadorItens::atualizar fails with
\* ValidacaoException on a negative price (the new name being non-empty and
\* not that of another entry), and the performer keeps its name and
\* camarimId when GerenciadorArtistas::atualizar fails with
\* ValidacaoException on a negative camarimId.
C27_AtualizarFalhoNaoAltera ==
    [][/\ (/\ call'.op = "GerenciadorItens::atualizar"
           /\ result' = "ValidacaoException"
           /\ call'.preco < 0
           /\ call'.nome # "")
          => gerenciadorItens'.itens = gerenciadorItens.itens
       /\ (/\ call'.op = "GerenciadorArtistas::atualizar"
           /\ result' = "ValidacaoException"
           /\ call'.camarimId < 0)
          => gerenciadorArtistas'.artistas = gerenciadorArtistas.artistas]_vars

\* C28: in every reachable stock state and for every itemId and quantity >= 0,
\* Estoque::verificarDisponibilidade returns true if and only if
\* Estoque::removerItem with the same arguments in the same state returns
\* without raising: a withdrawal that directly follows the query has the
\* outcome the query announced, and each of the two calls agrees with what the
\* other would answer in the state it was made in.
C28_DisponivelSseRetiravel ==
    [][/\ (/\ call.op = "Estoque::verificarDisponibilidade"
           /\ call'.op = "Estoque::removerItem"
           /\ call'.itemId = call.itemId
           /\ call'.quantidade = call.quantidade
           /\ call'.quantidade >= 0)
          => ((result = "true") <=> (result' = "true"))
       /\ (call'.op = "Estoque::verificarDisponibilidade" /\ call'.quantidade >= 0)
          => ((result' = "true")
                <=> (Estoque_removerItem(estoqueItens, call'.itemId,
                                         call'.quantidade).result = "true"))
       /\ (call'.op = "Estoque::removerItem" /\ call'.quantidade >= 0)
          => ((result' = "true")
                <=> (Estoque_verificarDisponibilidade(estoqueItens, call'.itemId,
                                                      call'.quantidade).result = "true"))]_vars

C28_Witness ==
    /\ call.op = "Estoque::removerItem"
    /\ call.quantidade = 0
    /\ result = "true"
    /\ call.itemId \in DOMAIN estoqueItens
    /\ estoqueItens[call.itemId].quantidade > 0
    /\ Estoque_verificarDisponibilidade(estoqueItens, call.itemId, call.quantidade).result = "true"

\* One step of a manager: a create that raised left the manager (vector and
\* id counter) as it was and raised one of the expected failures; a create
\* that succeeded returned the counter and advanced it by one; an update or a
\* remove left the counter alone.
ContadorSoAvancaAoCriar(gAntes, gDepois, criar, falhas, outras) ==
    /\ (call'.op = criar /\ result' # "valor")
          => (gDepois = gAntes /\ result' \in falhas)
    /\ (call'.op = criar /\ result' = "valor")
          => (retorno' = <<gAntes.proximoId>> /\ gDepois.proximoId = gAntes.proximoId + 1)
    /\ (call'.op \in outras) => gDepois.proximoId = gAntes.proximoId

\* C29: a create that fails (ValidacaoException in any manager, duplicate
\* name in the catalog) changes neither the manager's vector nor its id
\* counter, and remove and update never change the counter; the counter
\* starting at 1, the k-th successful create of a manager returns k whatever
\* failed creates, updates and removes come in between.
C29_CriacaoFalhaNaoConsomeId ==
    /\ gerenciadorItens.proximoId = 1 /\ gerenciadorArtistas.proximoId = 1
    /\ gerenciadorCamarins.proximoId = 1 /\ gerenciadorPedidos.proximoId = 1
    /\ gerenciadorListaCompras.proximoId = 1
    /\ [][/\ ContadorSoAvancaAoCriar(gerenciadorItens, gerenciadorItens',
                                     "GerenciadorItens::cadastrar",
                                     {"ValidacaoException", ItemJaExiste},
                                     {"GerenciadorItens::atualizar",
                                      "GerenciadorItens::remover"})
          /\ ContadorSoAvancaAoCriar(gerenciadorArtistas, gerenciadorArtistas',
                                     "GerenciadorArtistas::cadastrar",
                                     {"ValidacaoException"},
                                     {"GerenciadorArtistas::atualizar",
                                      "GerenciadorArtistas::remover"})
          /\ ContadorSoAvancaAoCriar(gerenciadorCamarins, gerenciadorCamarins',
                                     "GerenciadorCamarins::cadastrar",
                                     {"ValidacaoException"},
                                     {"GerenciadorCamarins::atualizar",
                                      "GerenciadorCamarins::remover"})
          /\ ContadorSoAvancaAoCriar(gerenciadorPedidos, gerenciadorPedidos',
                                     "GerenciadorPedidos::criar",
                                     {"ValidacaoException"},
                                     {"GerenciadorPedidos::remover"})
          /\ ContadorSoAvancaAoCriar(gerenciadorListaCompras, gerenciadorListaCompras',
                                     "GerenciadorListaCompras::criar",
                                     {"ValidacaoException"},
                                     {"GerenciadorListaCompras::remover"})]_vars

C29_Witness ==
    /\ call.op = "GerenciadorItens::cadastrar"
    /\ result = ItemJaExiste
    /\ gerenciadorItens.proximoId = MaxId
    /\ Len(gerenciadorItens.itens) = 1

\* The ids of a listing grow strictly from each element to the next.
CrescentePorId(lista) ==
    \A i, j \in 1 .. Len(lista) : (i < j) => lista[i].id < lista[j].id

\* The listing after remover(id): the listing before without the entity with
\* that id, the others in the order they had.
MantemOrdem(listaAntes, listaDepois, id) ==
    LET Fica(e) == e.id # id IN
    /\ listaDepois = SelectSeq(listaAntes, Fica)
    /\ \A i, j \in 1 .. Len(listaDepois) :
           (i < j) => \E a, b \in 1 .. Len(listaAntes) :
                         /\ a < b
                         /\ listaAntes[a] = listaDepois[i]
                         /\ listaAntes[b] = listaDepois[j]

\* C30: in every state reached by the create, update and remove calls of the
\* managers, what listar() returns is strictly increasing by id, which is the
\* order of creation; remover(id) deletes the entity with that id and keeps
\* the order of the others.
C30_ListarEmOrdemDeCriacao ==
    /\ CrescentePorId(GerenciadorItens_listar(gerenciadorItens))
    /\ CrescentePorId(GerenciadorArtistas_listar(gerenciadorArtistas))
    /\ CrescentePorId(GerenciadorCamarins_listar(gerenciadorCamarins))
    /\ CrescentePorId(GerenciadorPedidos_listar(gerenciadorPedidos))
    /\ CrescentePorId(GerenciadorListaCompras_listar(gerenciadorListaCompras))
    /\ [][/\ CrescentePorId(GerenciadorItens_listar(gerenciadorItens'))
          /\ CrescentePorId(GerenciadorArtistas_listar(gerenciadorArtistas'))
          /\ CrescentePorId(GerenciadorCamarins_listar(gerenciadorCamarins'))
          /\ CrescentePorId(GerenciadorPedidos_listar(gerenciadorPedidos'))
          /\ CrescentePorId(GerenciadorListaCompras_listar(gerenciadorListaCompras'))
          /\ (call'.op = "GerenciadorItens::remover")
                => MantemOrdem(GerenciadorItens_listar(gerenciadorItens),
                               GerenciadorItens_listar(gerenciadorItens'), call'.id)
          /\ (call'.op = "GerenciadorArtistas::remover")
                => MantemOrdem(GerenciadorArtistas_listar(gerenciadorArtistas),
                               GerenciadorArtistas_listar(gerenciadorArtistas'), call'.id)
          /\ (call'.op = "GerenciadorCamarins::remover")
                => MantemOrdem(GerenciadorCamarins_listar(gerenciadorCamarins),
                               GerenciadorCamarins_listar(gerenciadorCamarins'), call'.id)
          /\ (call'.op = "GerenciadorPedidos::remover")
                => MantemOrdem(GerenciadorPedidos_listar(gerenciadorPedidos),
                               GerenciadorPedidos_listar(gerenciadorPedidos'), call'.id)
          /\ (call'.op = "GerenciadorListaCompras::remover")
                => MantemOrdem(GerenciadorListaCompras_listar(gerenciadorListaCompras),
                               GerenciadorListaCompras_listar(gerenciadorListaCompras'),
                               call'.id)]_vars

C30_Witness ==
    /\ call.op = "GerenciadorCamarins::remover"
    /\ result = "true"
    /\ call.id = 1
    /\ Len(GerenciadorCamarins_listar(gerenciadorCamarins)) = 2
    /\ GerenciadorCamarins_listar(gerenciadorCamarins)[1].id = 2
    /\ GerenciadorCamarins_listar(gerenciadorCamarins)[2].id = MaxId

====
